---- MODULE Spec2Model ----
(***************************************************************************)
(* The uTP telemetry collector (server.py) and the sensor's packet         *)
(* builder (client.py) as a state machine.                                  *)
(*                                                                         *)
(*   Spec         the server: the IngestionLoop (run_server's receive      *)
(*                loop) and the ReorderProcessor thread, sharing the       *)
(*                device registry.  The drainer's get_next_ordered is      *)
(*                stepped line by line: no lock protects a DeviceState.    *)
(*   SpecScenario the same server fed the three packets of the spec's      *)
(*                reordering scenario, in that arrival order.              *)
(*   SpecDevice   one DeviceState whose methods are called in any order.   *)
(*   SpecMetrics  MetricsCollector: the sampler thread under its lock and  *)
(*                the unlocked reader get_system_metrics.                  *)
(*   SpecCodec    build_data_packet applied to reading lists.              *)
(*                                                                         *)
(* Not modelled: console output, wall-clock values (arrival_time is the    *)
(* ordinal of the packet, cpu_time_total/cpu_time_ms are left out), the    *)
(* logging counters reorder_events and reordered_this_cycle.               *)
(***************************************************************************)
EXTENDS Integers, Sequences, FiniteSets, TLC

(* ------------------------------------------------------------------ *)
(* Protocol definitions                                                *)
(* ------------------------------------------------------------------ *)
VERSION == 1
MSG_HEARTBEAT == 0
MSG_DATA == 1
HEADER_SIZE == 11
FLAG_BATCHING == 1
MAX_PAYLOAD_BYTES == 200
MAX_READINGS_PER_PACKET == (MAX_PAYLOAD_BYTES - HEADER_SIZE - 1) \div 4

\* Python's None for DeviceState.last_seq; sequence numbers are u16, so 0..65535.
None == -1

(* ------------------------------------------------------------------ *)
(* Floats.  A Python float is <<k, s>>: the value k/1000 plus a        *)
(* residual of class s: 0 none, +-1 the residual of the nearest double *)
(* (about 1e-16), +-2 the residual of the nearest binary32 (about      *)
(* 1e-7).  Python orders them as the pairs are ordered.  The tables    *)
(* are struct.pack("!f", v), struct.unpack("!f", b) and round(v, 2)    *)
(* as CPython computes them on the values listed.                      *)
(* ------------------------------------------------------------------ *)
F_20_5 == <<20500, 0>>
F_3_14 == <<3140, 1>>
F_3_14_f32 == <<3140, 2>>
\* 0.005 is the double 0.005000000000000000104; its binary32 is 0.004999999888
F_0_005 == <<5, 1>>
F_0_005_f32 == <<5, -2>>
F_0_01 == <<10, 1>>
F_0_0 == <<0, 0>>
\* 1000000.01 is the double 1000000.01000000000931; its binary32 is 1000000.0
F_1000000_01 == <<1000000010, 1>>
F_1000000 == <<1000000000, 0>>

FloatLess(a, b) == a[1] < b[1] \/ (a[1] = b[1] /\ a[2] < b[2])

\* struct.pack("!f", r): IEEE-754 binary32, big-endian
pack_f(r) ==
    CASE r = F_20_5 -> <<65, 164, 0, 0>>
      [] r = F_3_14 -> <<64, 72, 245, 195>>
      [] r = F_0_005 -> <<59, 163, 215, 10>>
      [] r = F_1000000_01 -> <<73, 116, 36, 0>>

\* struct.unpack("!f", b): the binary32 value as a Python float
unpack_f(b) ==
    CASE b = <<65, 164, 0, 0>> -> F_20_5
      [] b = <<64, 72, 245, 195>> -> F_3_14_f32
      [] b = <<59, 163, 215, 10>> -> F_0_005_f32
      [] b = <<73, 116, 36, 0>> -> F_1000000

\* mutant of round2: the value is rounded to 1 decimal place
round1(v) ==
    CASE v = F_20_5 -> F_20_5
      [] v = F_3_14_f32 -> <<3100, 1>>
      [] v = F_3_14 -> <<3100, 1>>
      [] v = F_0_005_f32 -> F_0_0
      [] v = F_0_005 -> F_0_0
      [] v = F_1000000 -> F_1000000
      [] v = F_1000000_01 -> F_1000000

\* round(value, 2)
round2(v) ==
    CASE v = F_20_5 -> F_20_5
      [] v = F_3_14_f32 -> F_3_14
      [] v = F_3_14 -> F_3_14
      [] v = F_0_005_f32 -> F_0_0
      [] v = F_0_005 -> F_0_01
      [] v = F_1000000 -> F_1000000
      [] v = F_1000000_01 -> F_1000000_01

(* ------------------------------------------------------------------ *)
(* client.py: building packets.  A packet is a sequence of bytes.      *)
(* ------------------------------------------------------------------ *)
pack_H(x) == <<x \div 256, x % 256>>
pack_I(x) == <<x \div 16777216, (x \div 65536) % 256, (x \div 256) % 256, x % 256>>

\* struct.pack("!BBHHIB", VERSION, msg_type, device_id, seq_num, timestamp, flags)
build_header(msg_type, device_id, seq_num, flags, timestamp) ==
    <<VERSION, msg_type>> \o pack_H(device_id) \o pack_H(seq_num)
        \o pack_I(timestamp) \o <<flags>>

RECURSIVE pack_readings(_)
pack_readings(readings) ==
    IF readings = <<>> THEN <<>>
    ELSE pack_f(Head(readings)) \o pack_readings(Tail(readings))

\* validate_packet_size: FALSE where the source raises ValueError
validate_packet_size(packet) == ~(Len(packet) - HEADER_SIZE > MAX_PAYLOAD_BYTES)

\* what build_data_packet leaves its caller with when validate_packet_size raises
ValueError == <<"ValueError">>

\* mutant of truncate_readings: the slice keeps the last readings, not the first
truncate_readings_last(readings) ==
    IF Len(readings) > MAX_READINGS_PER_PACKET
    THEN SubSeq(readings, Len(readings) - MAX_READINGS_PER_PACKET + 1, Len(readings))
    ELSE readings

\* mutant of truncate_readings: the list is encoded whole
truncate_readings_none(readings) == readings

\* readings[:MAX_READINGS_PER_PACKET] when the list is longer than the cap
truncate_readings(readings) ==
    IF Len(readings) > MAX_READINGS_PER_PACKET
    THEN SubSeq(readings, 1, MAX_READINGS_PER_PACKET)
    ELSE readings

\* flags = FLAG_BATCHING if len(readings) > 1 else 0
batching_flags(readings) == IF Len(readings) > 1 THEN FLAG_BATCHING ELSE 0

build_data_packet(device_id, seq_num, readings, timestamp) ==
    LET kept == truncate_readings(readings)
        flags == batching_flags(kept)
        header == build_header(MSG_DATA, device_id, seq_num, flags, timestamp)
        payload == <<Len(kept)>> \o pack_readings(kept)
        packet == header \o payload
    IN  IF validate_packet_size(packet) THEN packet ELSE ValueError

build_heartbeat_packet(device_id, seq_num, timestamp) ==
    build_header(MSG_HEARTBEAT, device_id, seq_num, 0, timestamp)

(* ------------------------------------------------------------------ *)
(* server.py: PacketProcessor                                          *)
(* ------------------------------------------------------------------ *)
\* parse_header's None (fewer than HEADER_SIZE bytes)
ParsedNone == [malformed |-> TRUE]

parse_header(packet) ==
    IF Len(packet) < HEADER_SIZE THEN ParsedNone
    ELSE [version |-> packet[1],
          msg_type |-> packet[2],
          dev_id |-> packet[3] * 256 + packet[4],
          seq |-> packet[5] * 256 + packet[6],
          timestamp |-> ((packet[7] * 256 + packet[8]) * 256 + packet[9]) * 256
                          + packet[10],
          flags |-> packet[11]]

\* the for loop of parse_data_payload; idx counts bytes from 0 as in the source
RECURSIVE read_floats(_, _, _)
read_floats(packet, idx, remaining) ==
    IF remaining = 0 \/ idx + 4 > Len(packet) THEN <<>>
    ELSE <<round2(unpack_f(SubSeq(packet, idx + 1, idx + 4)))>>
            \o read_floats(packet, idx + 4, remaining - 1)

\* mutant of parse_data_payload: a payload shorter than its count declares yields
\* nothing
parse_data_payload_whole(packet) ==
    IF Len(packet) < HEADER_SIZE + 1 THEN <<>>
    ELSE IF HEADER_SIZE + 1 + 4 * packet[HEADER_SIZE + 1] > Len(packet) THEN <<>>
    ELSE read_floats(packet, HEADER_SIZE + 1, packet[HEADER_SIZE + 1])

parse_data_payload(packet) ==
    IF Len(packet) < HEADER_SIZE + 1 THEN <<>>
    ELSE read_floats(packet, HEADER_SIZE + 1, packet[HEADER_SIZE + 1])

is_batching_enabled(flags) == flags % 2 # 0

(* ------------------------------------------------------------------ *)
(* Bounds of the model and the packets the network may deliver          *)
(* ------------------------------------------------------------------ *)
\* packets received in one run
MaxPackets == 3

DeviceIds == {7, 8, 9}

\* a DATA packet whose version byte is not VERSION
wrong_version(packet) == [packet EXCEPT ![1] = VERSION + 1]

\* a packet whose msg_type is neither DATA nor HEARTBEAT
unknown_type(packet) == [packet EXCEPT ![2] = 2]

DataPackets ==
    {build_data_packet(7, s, <<F_20_5>>, t) : s \in {1, 2, 3}, t \in {1000, 1001, 1002}}
        \cup {build_data_packet(7, 1, <<F_20_5, F_3_14>>, 1000),
              build_data_packet(8, 1, <<F_3_14>>, 1001)}

OtherPackets ==
    {build_heartbeat_packet(7, 1, 1000), build_heartbeat_packet(7, 2, 1001),
     unknown_type(build_data_packet(7, 2, <<F_20_5>>, 1001))}

RejectedPackets ==
    {SubSeq(build_data_packet(7, 1, <<F_20_5>>, 1000), 1, 9),
     SubSeq(build_heartbeat_packet(9, 1, 1000), 1, 10),
     wrong_version(build_data_packet(7, 2, <<F_20_5>>, 1001)),
     wrong_version(build_heartbeat_packet(9, 1, 1000))}

Packets == DataPackets \cup OtherPackets \cup RejectedPackets

(* ------------------------------------------------------------------ *)
(* server.py: DeviceState                                              *)
(* ------------------------------------------------------------------ *)
DeviceState(device_id) ==
    [device_id |-> device_id,
     last_seq |-> None,
     received_sequences |-> {},
     reorder_heap |-> <<>>,
     last_processed_timestamp |-> 0,
     total_packets |-> 0,
     duplicate_count |-> 0,
     gap_count |-> 0,
     bytes_received |-> 0,
     readings_received |-> 0]

\* Python's order on lists of floats
RECURSIVE ListLess(_, _)
ListLess(a, b) ==
    IF b = <<>> THEN FALSE
    ELSE IF a = <<>> THEN TRUE
    ELSE IF FloatLess(Head(a), Head(b)) THEN TRUE
    ELSE IF FloatLess(Head(b), Head(a)) THEN FALSE
    ELSE ListLess(Tail(a), Tail(b))

\* Python's order on the heap's tuples (timestamp, seq, readings, arrival_time)
TupleLess(a, b) ==
    IF a.timestamp # b.timestamp THEN a.timestamp < b.timestamp
    ELSE IF a.seq # b.seq THEN a.seq < b.seq
    ELSE IF a.readings # b.readings THEN ListLess(a.readings, b.readings)
    ELSE a.arrival_time < b.arrival_time

\* heapq._siftdown(heap, startpos, pos); positions count from 0 as in heapq
RECURSIVE siftdown(_, _, _, _)
siftdown(heap, startpos, pos, newitem) ==
    IF pos > startpos
    THEN LET parentpos == (pos - 1) \div 2
             parent == heap[parentpos + 1]
         IN  IF TupleLess(newitem, parent)
             THEN siftdown([heap EXCEPT ![pos + 1] = parent], startpos, parentpos, newitem)
             ELSE [heap EXCEPT ![pos + 1] = newitem]
    ELSE [heap EXCEPT ![pos + 1] = newitem]

\* heapq._siftup(heap, pos)
RECURSIVE siftup(_, _, _, _)
siftup(heap, startpos, pos, newitem) ==
    LET endpos == Len(heap)
        childpos == 2 * pos + 1
    IN  IF childpos < endpos
        THEN LET rightpos == childpos + 1
                 c == IF rightpos < endpos
                         /\ ~TupleLess(heap[childpos + 1], heap[rightpos + 1])
                      THEN rightpos ELSE childpos
             IN  siftup([heap EXCEPT ![pos + 1] = heap[c + 1]], startpos, c, newitem)
        ELSE siftdown([heap EXCEPT ![pos + 1] = newitem], startpos, pos, newitem)

heappush(heap, item) == siftdown(Append(heap, item), 0, Len(heap), item)

\* heapq.heappop(heap) on a heap that is not empty: the heap left and the item returned
heappop(heap) ==
    LET lastelt == heap[Len(heap)]
        rest == SubSeq(heap, 1, Len(heap) - 1)
    IN  IF rest # <<>>
        THEN [heap |-> siftup([rest EXCEPT ![1] = lastelt], 0, 0, lastelt),
              item |-> heap[1]]
        ELSE [heap |-> rest, item |-> lastelt]

add_packet(st, seq, timestamp, readings, packet_size, arrival_time) ==
    [st EXCEPT
        !.reorder_heap = heappush(@, [timestamp |-> timestamp, seq |-> seq,
                                      readings |-> readings,
                                      arrival_time |-> arrival_time]),
        !.total_packets = @ + 1,
        !.bytes_received = @ + packet_size,
        !.readings_received = @ + Len(readings)]

\* mutant of drain_guard: the minimum is popped whatever its timestamp
drain_guard_always(timestamp, last_processed_timestamp) == TRUE

\* mutant of drain_guard: a record as old as the last one returned is held back
drain_guard_strict(timestamp, last_processed_timestamp) ==
    timestamp > last_processed_timestamp

\* the guard of get_next_ordered: only return if this timestamp is >= last processed
drain_guard(timestamp, last_processed_timestamp) ==
    timestamp >= last_processed_timestamp

\* get_next_ordered run without interruption: the state left and the value returned
get_next_ordered(st) ==
    IF st.reorder_heap = <<>> THEN [st |-> st, ret |-> <<>>]
    ELSE LET top == st.reorder_heap[1]
         IN  IF drain_guard(top.timestamp, st.last_processed_timestamp)
             THEN [st |-> [st EXCEPT !.reorder_heap = heappop(@).heap,
                                     !.last_processed_timestamp = top.timestamp],
                   ret |-> <<top>>]
             ELSE [st |-> st, ret |-> <<>>]

\* mutant of check_duplicate: detection consumes the sequence number
check_duplicate_consuming(st, seq) ==
    IF seq \in st.received_sequences
    THEN [st |-> [st EXCEPT !.duplicate_count = @ + 1,
                            !.received_sequences = @ \ {seq}],
          ret |-> TRUE]
    ELSE [st |-> st, ret |-> FALSE]

check_duplicate(st, seq) ==
    IF seq \in st.received_sequences
    THEN [st |-> [st EXCEPT !.duplicate_count = @ + 1], ret |-> TRUE]
    ELSE [st |-> st, ret |-> FALSE]

\* mutant of check_gap: only a seq that skips ahead counts as a gap
check_gap_ahead_only(st, seq) ==
    IF st.last_seq # None /\ seq > st.last_seq + 1
    THEN [st |-> [st EXCEPT !.gap_count = @ + 1], ret |-> TRUE]
    ELSE [st |-> st, ret |-> FALSE]

check_gap(st, seq) ==
    IF st.last_seq # None /\ seq # st.last_seq + 1
    THEN [st |-> [st EXCEPT !.gap_count = @ + 1], ret |-> TRUE]
    ELSE [st |-> st, ret |-> FALSE]

\* mutant of update_sequence: last_seq never goes back
update_sequence_highest(st, seq) ==
    [st EXCEPT !.received_sequences = @ \cup {seq},
               !.last_seq = IF seq > @ THEN seq ELSE @]

update_sequence(st, seq) ==
    [st EXCEPT !.received_sequences = @ \cup {seq}, !.last_seq = seq]

(* ------------------------------------------------------------------ *)
(* State                                                               *)
(* ------------------------------------------------------------------ *)
VARIABLES
    device_states,      \* run_server: the registry, device id -> DeviceState
    registry_order,     \* the registry's keys in insertion order (dict order)
    packet_counts,      \* MetricsCollector.packet_counts
    csv_rows,           \* the rows handed to write_csv_row, in order
    packet_count,       \* run_server: packets received
    packet,             \* run_server: the packet last received
    reorder_enabled,    \* run_server's argument
    running,            \* the receive loop has not been interrupted
    stop_event,         \* the ReorderProcessor's stop flag
    d_pc,               \* ReorderProcessor.run: where the thread is
    d_sweep,            \* list(self.device_states.items()): the sweep's snapshot
    d_items,            \* the part of the snapshot the for loop has not reached yet
    d_dev,              \* the device the for loop is at
    d_local,            \* get_next_ordered's locals: the tuple peeked
    processed_count,    \* ReorderProcessor.processed_count
    emitted,            \* per device, the results get_next_ordered returned
    ds,                 \* SpecDevice: the DeviceState under test
    call,               \* SpecDevice: the last method call and what it returned
    cpu_readings,       \* MetricsCollector.cpu_readings
    memory_readings,    \* MetricsCollector.memory_readings
    lock,               \* MetricsCollector.lock: its holder
    s_pc,               \* record_system_metrics: where the sampler thread is
    metrics_stop,       \* run_server: the sampler thread's stop flag
    m_pc,               \* the main thread inside MetricsCollector: where it is
    g_cpu,              \* get_system_metrics: its copy of cpu_readings
    g_mem,              \* get_system_metrics: its copy of memory_readings
    g_result,           \* get_system_metrics: the tuple last returned
    codec_in,           \* SpecCodec: the readings given to build_data_packet
    codec_out,          \* SpecCodec: the packet built
    codec_args,         \* SpecCodec: build_data_packet's other arguments
    codec_pc,           \* SpecCodec: "encode", "decode" or "done"
    codec_pkt,          \* SpecCodec: the packet handed to the PacketProcessor
    codec_parsed,       \* SpecCodec: what parse_header and parse_data_payload returned
    ts_packet,          \* SpecTimestamp: the DATA packet received
    ts_fed              \* SpecTimestamp: the timestamp given to write_csv_row and to add_packet

serverVars == <<device_states, registry_order, packet_counts, csv_rows, packet_count,
                packet, reorder_enabled, running, stop_event, d_pc, d_sweep, d_items,
                d_dev, d_local, processed_count, emitted>>
deviceVars == <<ds, call>>
metricsVars == <<cpu_readings, memory_readings, lock, s_pc, metrics_stop, m_pc, g_cpu,
                 g_mem, g_result>>
codecVars == <<codec_in, codec_out, codec_args, codec_pc, codec_pkt, codec_parsed,
               ts_packet, ts_fed>>
vars == <<serverVars, deviceVars, metricsVars, codecVars>>

ingestVars == <<device_states, registry_order, packet_counts, csv_rows, packet_count,
                packet>>
drainVars == <<d_pc, d_sweep, d_items, d_dev, d_local, processed_count, emitted>>

NoTuple == [timestamp |-> 0, seq |-> 0, readings |-> <<>>, arrival_time |-> 0]

ServerInit ==
    /\ device_states = <<>>
    /\ registry_order = <<>>
    /\ packet_counts = <<>>
    /\ csv_rows = <<>>
    /\ packet_count = 0
    /\ packet = <<>>
    /\ running = TRUE
    /\ stop_event = FALSE
    /\ d_sweep = <<>>
    /\ d_items = <<>>
    /\ d_dev = 0
    /\ d_local = NoTuple
    /\ processed_count = 0
    /\ emitted = [d \in DeviceIds |-> <<>>]

DeviceInit ==
    /\ ds = DeviceState(7)
    /\ call = [op |-> "init", seq |-> 0, ret |-> <<>>, before |-> DeviceState(7),
               updated |-> {}, n |-> 0]

MetricsInit ==
    /\ cpu_readings = <<>>
    /\ memory_readings = <<>>
    /\ lock = "free"
    /\ s_pc = "while"
    /\ metrics_stop = FALSE
    /\ m_pc = "idle"
    /\ g_cpu = <<>>
    /\ g_mem = <<>>
    /\ g_result = <<>>

\* the state of the codec before build_data_packet is called
CodecStart ==
    /\ codec_out = <<>>
    /\ codec_args = [device_id |-> 0, seq_num |-> 0, timestamp |-> 0]
    /\ codec_pc = "encode"
    /\ codec_pkt = <<>>
    /\ codec_parsed = [header |-> ParsedNone, readings |-> <<>>]
    /\ ts_fed = <<>>

CodecInit ==
    /\ codec_in = <<>>
    /\ ts_packet = <<>>
    /\ CodecStart

\* run_server(port, csv_path, reorder_enabled): the ReorderProcessor is started
\* only when reordering is enabled
Init ==
    /\ ServerInit
    /\ reorder_enabled \in BOOLEAN
    /\ d_pc = IF reorder_enabled THEN "while" ELSE "none"
    /\ DeviceInit
    /\ MetricsInit
    /\ CodecInit

(* ------------------------------------------------------------------ *)
(* run_server: the IngestionLoop                                       *)
(* ------------------------------------------------------------------ *)
\* mutant of valid_version: the version byte is not validated
valid_version_any(version) == TRUE

\* if version != VERSION: continue
valid_version(version) == version = VERSION

\* mutant of get_or_create: a DeviceState is made for every packet
get_or_create_always(states, dev_id) == (dev_id :> DeviceState(dev_id)) @@ states

\* get or create device state
get_or_create(states, dev_id) ==
    IF dev_id \notin DOMAIN states
    THEN (dev_id :> DeviceState(dev_id)) @@ states
    ELSE states

\* MetricsCollector.increment_packet_count on the defaultdict(int); it runs under
\* the collector's lock, so the handler waits while the sampler holds it
increment_packet_count(counts, dev_id) ==
    IF dev_id \in DOMAIN counts
    THEN [counts EXCEPT ![dev_id] = @ + 1]
    ELSE (dev_id :> 1) @@ counts

\* mutant of track_sequence: a duplicate is not checked for a gap
track_sequence_short_circuit(st, seq) ==
    LET dup == check_duplicate(st, seq)
        gap == check_gap(dup.st, seq)
    IN  IF dup.ret
        THEN [st |-> dup.st, duplicate |-> TRUE, gap |-> FALSE]
        ELSE [st |-> update_sequence(gap.st, seq), duplicate |-> FALSE, gap |-> gap.ret]

\* check duplicates, sequence gap detection, update sequence tracking (if not
\* duplicate): the state left and the two flags
track_sequence(st, seq) ==
    LET dup == check_duplicate(st, seq)
        gap == check_gap(dup.st, seq)
    IN  [st |-> IF ~dup.ret THEN update_sequence(gap.st, seq) ELSE gap.st,
         duplicate |-> dup.ret,
         gap |-> gap.ret]

\* convert timestamp if it's in seconds
timestamp_ms(timestamp) ==
    IF timestamp < 1000000000 THEN timestamp * 1000 ELSE timestamp

\* mutant of feeds_reorder: every accepted packet is fed to the reorder buffer
feeds_reorder_any_type(msg_type, enabled) == enabled

\* whether the packet is fed to the reorder buffer
feeds_reorder(msg_type, enabled) == msg_type = MSG_DATA /\ enabled

\* mutant of write_csv_row: the row carries the timestamp normalised to milliseconds
write_csv_row_ms(rows, dev_id, seq, timestamp, arrival_time, duplicate, gap, num_readings, is_batched, packet_size) ==
    Append(rows, [device_id |-> dev_id, seq |-> seq, timestamp |-> timestamp_ms(timestamp),
                  arrival_time |-> arrival_time, duplicate_flag |-> duplicate,
                  gap_flag |-> gap, num_readings |-> num_readings,
                  is_batched |-> is_batched, packet_size |-> packet_size])

\* write_csv_row(writer, ...) and f.flush(); cpu_time_ms is a wall-clock value
write_csv_row(rows, dev_id, seq, timestamp, arrival_time, duplicate, gap, num_readings, is_batched, packet_size) ==
    Append(rows, [device_id |-> dev_id, seq |-> seq, timestamp |-> timestamp,
                  arrival_time |-> arrival_time, duplicate_flag |-> duplicate,
                  gap_flag |-> gap, num_readings |-> num_readings,
                  is_batched |-> is_batched, packet_size |-> packet_size])

\* one pass of the receive loop on the packet pkt; arrival_time is the packet's ordinal
HandlePacket(pkt) ==
    /\ running
    /\ packet_count < MaxPackets
    /\ packet' = pkt
    /\ packet_count' = packet_count + 1
    /\ LET parsed == parse_header(pkt)
       IN  IF parsed = ParsedNone
           THEN UNCHANGED <<device_states, registry_order, packet_counts, csv_rows>>
           ELSE IF ~valid_version(parsed.version)
           THEN UNCHANGED <<device_states, registry_order, packet_counts, csv_rows>>
           ELSE
             LET dev_id == parsed.dev_id
                 seq == parsed.seq
                 arrival_time == packet_count + 1
                 states == get_or_create(device_states, dev_id)
                 track == track_sequence(states[dev_id], seq)
                 tracked == track.st
                 readings == IF parsed.msg_type = MSG_DATA
                             THEN parse_data_payload(pkt) ELSE <<>>
                 is_batched == /\ parsed.msg_type = MSG_DATA
                               /\ is_batching_enabled(parsed.flags)
                               /\ Len(readings) > 1
                 final == IF feeds_reorder(parsed.msg_type, reorder_enabled)
                          THEN add_packet(tracked, seq, timestamp_ms(parsed.timestamp),
                                          readings, Len(pkt), arrival_time)
                          ELSE tracked
             IN  /\ lock = "free"
                 /\ device_states' = [states EXCEPT ![dev_id] = final]
                 /\ registry_order' = IF dev_id \in DOMAIN device_states
                                      THEN registry_order
                                      ELSE Append(registry_order, dev_id)
                 /\ packet_counts' = increment_packet_count(packet_counts, dev_id)
                 /\ csv_rows' = write_csv_row(csv_rows, dev_id, seq, parsed.timestamp,
                                              arrival_time, track.duplicate, track.gap,
                                              Len(readings), is_batched, Len(pkt))
    /\ UNCHANGED <<reorder_enabled, running, stop_event, drainVars>>
    /\ UNCHANGED <<deviceVars, metricsVars, codecVars>>

Receive == \E pkt \in Packets : HandlePacket(pkt)

\* mutant of Shutdown: the finally block forgets metrics_stop.set()
Shutdown_without_metrics_stop ==
    /\ running
    /\ running' = FALSE
    /\ stop_event' = TRUE
    /\ UNCHANGED <<ingestVars, reorder_enabled, drainVars, metricsVars, deviceVars,
                   codecVars>>

\* KeyboardInterrupt: the loop breaks and the finally block sets the stop flags
Shutdown ==
    /\ running
    /\ running' = FALSE
    /\ stop_event' = TRUE
    /\ metrics_stop' = TRUE
    /\ UNCHANGED <<ingestVars, reorder_enabled, drainVars>>
    /\ UNCHANGED <<cpu_readings, memory_readings, lock, s_pc, m_pc, g_cpu, g_mem,
                   g_result>>
    /\ UNCHANGED <<deviceVars, codecVars>>

(* ------------------------------------------------------------------ *)
(* ReorderProcessor.run, one line of get_next_ordered per step         *)
(* ------------------------------------------------------------------ *)
DrainFrame == UNCHANGED <<registry_order, packet_counts, csv_rows, packet_count, packet,
                          reorder_enabled, running, stop_event, deviceVars, metricsVars,
                          codecVars>>

\* mutant of DrainWhile: the snapshot is taken once, before the while loop
DrainWhile_one_snapshot ==
    /\ d_pc = "while"
    /\ IF stop_event
       THEN d_pc' = "stopped" /\ UNCHANGED <<d_sweep, d_items>>
       ELSE d_pc' = "for" /\ d_sweep' = d_sweep /\ d_items' = d_sweep
    /\ UNCHANGED <<device_states, d_dev, d_local, processed_count, emitted>>
    /\ UNCHANGED <<registry_order, packet_counts, csv_rows, packet_count, packet,
                   reorder_enabled, running, stop_event, deviceVars, metricsVars,
                   codecVars>>

\* while not self.stop_event.is_set(): ... list(self.device_states.items())
DrainWhile ==
    /\ d_pc = "while"
    /\ IF stop_event
       THEN d_pc' = "stopped" /\ UNCHANGED <<d_sweep, d_items>>
       ELSE d_pc' = "for" /\ d_sweep' = registry_order /\ d_items' = d_sweep'
    /\ UNCHANGED <<device_states, d_dev, d_local, processed_count, emitted>>
    /\ DrainFrame

\* for device_id, state in ...: the next device, or the sleep that ends the sweep
DrainFor ==
    /\ d_pc = "for"
    /\ IF d_items = <<>>
       THEN d_pc' = "while" /\ UNCHANGED <<d_items, d_dev>>
       ELSE d_pc' = "test" /\ d_dev' = Head(d_items) /\ d_items' = Tail(d_items)
    /\ UNCHANGED <<device_states, d_sweep, d_local, processed_count, emitted>>
    /\ DrainFrame

\* if not self.reorder_heap: return None
DrainTest ==
    /\ d_pc = "test"
    /\ d_pc' = IF device_states[d_dev].reorder_heap = <<>> THEN "for" ELSE "peek"
    /\ UNCHANGED <<device_states, d_sweep, d_items, d_dev, d_local, processed_count, emitted>>
    /\ DrainFrame

\* timestamp, seq, readings, arrival_time = self.reorder_heap[0]
DrainPeek ==
    /\ d_pc = "peek"
    /\ d_local' = device_states[d_dev].reorder_heap[1]
    /\ d_pc' = "guard"
    /\ UNCHANGED <<device_states, d_sweep, d_items, d_dev, processed_count, emitted>>
    /\ DrainFrame

\* if timestamp >= self.last_processed_timestamp: ... else return None
DrainGuard ==
    /\ d_pc = "guard"
    /\ d_pc' = IF drain_guard(d_local.timestamp,
                              device_states[d_dev].last_processed_timestamp)
               THEN "pop" ELSE "for"
    /\ UNCHANGED <<device_states, d_sweep, d_items, d_dev, d_local, processed_count, emitted>>
    /\ DrainFrame

\* heapq.heappop(self.reorder_heap)
DrainPop ==
    /\ d_pc = "pop"
    /\ device_states' = [device_states EXCEPT ![d_dev].reorder_heap = heappop(@).heap]
    /\ d_pc' = "store"
    /\ UNCHANGED <<d_sweep, d_items, d_dev, d_local, processed_count, emitted>>
    /\ DrainFrame

\* self.last_processed_timestamp = timestamp; return seq, timestamp, readings,
\* arrival_time; the caller counts the result and calls again
DrainStore ==
    /\ d_pc = "store"
    /\ device_states' = [device_states EXCEPT
                            ![d_dev].last_processed_timestamp = d_local.timestamp]
    /\ emitted' = [emitted EXCEPT ![d_dev] = Append(@, d_local)]
    /\ processed_count' = processed_count + 1
    /\ d_pc' = "test"
    /\ UNCHANGED <<d_sweep, d_items, d_dev, d_local>>
    /\ DrainFrame

Drain == DrainWhile \/ DrainFor \/ DrainTest \/ DrainPeek \/ DrainGuard \/ DrainPop
            \/ DrainStore

Next == Receive \/ Shutdown \/ Drain

Spec == Init /\ [][Next]_vars

(* ------------------------------------------------------------------ *)
(* The reordering scenario: device 7 sends seq 1 (t=1000), seq 3       *)
(* (t=1002), seq 2 (t=1001), arriving in that order, reordering on      *)
(* ------------------------------------------------------------------ *)
ScenarioPackets ==
    <<build_data_packet(7, 1, <<F_20_5>>, 1000),
      build_data_packet(7, 3, <<F_20_5>>, 1002),
      build_data_packet(7, 2, <<F_20_5>>, 1001)>>

ScenarioInit ==
    /\ ServerInit
    /\ reorder_enabled = TRUE
    /\ d_pc = "while"
    /\ DeviceInit
    /\ MetricsInit
    /\ CodecInit

ScenarioReceive ==
    /\ packet_count < Len(ScenarioPackets)
    /\ HandlePacket(ScenarioPackets[packet_count + 1])

ScenarioNext == ScenarioReceive \/ Shutdown \/ Drain

SpecScenario == ScenarioInit /\ [][ScenarioNext]_vars

(* ------------------------------------------------------------------ *)
(* Properties of the server                                            *)
(* ------------------------------------------------------------------ *)
\* the seq numbers of the records returned so far for device d
EmittedSeqs(d) == [i \in 1..Len(emitted[d]) |-> emitted[d][i].seq]

Prefixes(s) == {SubSeq(s, 1, n) : n \in 0..Len(s)}

\* C1: for each device the records returned by successive get_next_ordered calls
\* have non-decreasing timestamps, whatever the interleaving of arrivals and drains.
C1_DrainNonDecreasing ==
    \A d \in DeviceIds :
        \A i \in 1..(Len(emitted[d]) - 1) :
            emitted[d][i].timestamp <= emitted[d][i + 1].timestamp

\* a record that arrived later and carries an earlier timestamp was returned first
C1_Witness ==
    \E d \in DeviceIds :
        /\ Len(emitted[d]) >= 2
        /\ emitted[d][1].arrival_time > emitted[d][2].arrival_time
        /\ emitted[d][1].timestamp < emitted[d][2].timestamp

\* C2: add_packet never pushes onto a device's heap while get_next_ordered on that
\* device is between its peek of the heap minimum and its pop.
C2_HeapMutualExclusion ==
    [][(d_pc \in {"guard", "pop"} /\ d_pc' = d_pc)
          => device_states'[d_dev].reorder_heap = device_states[d_dev].reorder_heap]_vars

\* C3 as claimed: in every interleaving the records emitted for device 7 are seq 1,
\* seq 2, seq 3 in that order, and the gap flag of seq 3's arrival is true.
C3_ScenarioAllInterleavings ==
    /\ EmittedSeqs(7) \in Prefixes(<<1, 2, 3>>)
    /\ Len(csv_rows) >= 2 => csv_rows[2].seq = 3 /\ csv_rows[2].gap_flag

\* C3 amended: the gap flag of seq 3's arrival is true and the records emitted are in
\* timestamp order in every interleaving; seq 2 is emitted only directly after seq 1
\* and before seq 3, so never once the drainer has taken seq 3 first.
C3_ScenarioTimestampOrder ==
    /\ EmittedSeqs(7) \in Prefixes(<<1, 2, 3>>) \cup Prefixes(<<1, 3, 3>>)
    /\ Len(csv_rows) >= 2 => csv_rows[2].seq = 3 /\ csv_rows[2].gap_flag
    /\ C1_DrainNonDecreasing

\* all three arrived and were emitted in timestamp order
C3_Witness ==
    /\ packet_count = 3
    /\ EmittedSeqs(7) = <<1, 2, 3>>
    /\ csv_rows[2].gap_flag

\* the last step received a packet
Received == packet_count' = packet_count + 1

\* a packet the receive loop drops: too short for a header, or not of VERSION
Rejected(p) == Len(p) < HEADER_SIZE \/ p[1] # VERSION

\* the device id an accepted packet carries (bytes 2 and 3, big-endian)
ClaimedDevice(p) == p[3] * 256 + p[4]

\* the seq an accepted packet carries (bytes 4 and 5, big-endian)
ClaimedSeq(p) == p[5] * 256 + p[6]

\* C6 as claimed: when an accepted packet carries a seq its device has already
\* accepted, duplicate_count grows by exactly one, total_packets counts every accepted
\* arrival of the device, and last_seq and the seen set are unchanged, whatever the
\* message type and whether or not reordering is enabled.
C6_DuplicateArrival ==
    [][(/\ Received
        /\ ~Rejected(packet')
        /\ ClaimedDevice(packet') \in DOMAIN device_states
        /\ ClaimedSeq(packet') \in
              device_states[ClaimedDevice(packet')].received_sequences)
       => LET d == ClaimedDevice(packet')
          IN  /\ device_states'[d].duplicate_count = device_states[d].duplicate_count + 1
              /\ device_states'[d].total_packets = packet_counts'[d]
              /\ device_states'[d].last_seq = device_states[d].last_seq
              /\ device_states'[d].received_sequences
                    = device_states[d].received_sequences]_vars

\* C6 amended: on such an arrival duplicate_count grows by exactly one and last_seq
\* and the seen set are unchanged, whatever the message type and the reordering
\* setting; total_packets grows by one only when the packet is a DATA packet of a run
\* with reordering enabled (it is counted in add_packet), and is unchanged otherwise.
C6_DuplicateArrivalCounted ==
    [][(/\ Received
        /\ ~Rejected(packet')
        /\ ClaimedDevice(packet') \in DOMAIN device_states
        /\ ClaimedSeq(packet') \in
              device_states[ClaimedDevice(packet')].received_sequences)
       => LET d == ClaimedDevice(packet')
              counted == IF packet'[2] = MSG_DATA /\ reorder_enabled THEN 1 ELSE 0
          IN  /\ device_states'[d].duplicate_count = device_states[d].duplicate_count + 1
              /\ device_states'[d].total_packets = device_states[d].total_packets + counted
              /\ device_states'[d].last_seq = device_states[d].last_seq
              /\ device_states'[d].received_sequences
                    = device_states[d].received_sequences
              /\ csv_rows'[Len(csv_rows')].duplicate_flag]_vars

\* the same seq was accepted twice from one device: duplicate_count is 1 and
\* total_packets is 2
C6_Witness ==
    /\ packet_count = 2
    /\ ~Rejected(packet)
    /\ LET d == ClaimedDevice(packet)
       IN  /\ d \in DOMAIN device_states
           /\ device_states[d].received_sequences = {ClaimedSeq(packet)}
           /\ device_states[d].duplicate_count = 1
           /\ device_states[d].total_packets = 2
           /\ packet_counts[d] = 2

\* the same heartbeat was accepted twice: duplicate_count is 1 and total_packets is 0
C6_WitnessHeartbeat ==
    /\ packet_count = 2
    /\ ~Rejected(packet)
    /\ packet[2] = MSG_HEARTBEAT
    /\ LET d == ClaimedDevice(packet)
       IN  /\ d \in DOMAIN device_states
           /\ device_states[d].duplicate_count = 1
           /\ device_states[d].total_packets = 0
           /\ packet_counts[d] = 2

\* C7: a packet shorter than 11 bytes makes parse_header return its sentinel, a packet
\* of another version is rejected, and in both cases the loop goes on with the
\* registry, every DeviceState, the packet-count map and the persisted rows unchanged.
C7_RejectedPacketNoEffect ==
    [][(Received /\ Rejected(packet'))
       => /\ Len(packet') < HEADER_SIZE => parse_header(packet') = ParsedNone
          /\ UNCHANGED <<device_states, registry_order, packet_counts, csv_rows>>
          /\ running']_vars

\* a packet of another version claiming a device the registry does not hold was
\* received after an accepted packet
C7_Witness ==
    /\ Len(packet) >= HEADER_SIZE
    /\ packet[1] # VERSION
    /\ ClaimedDevice(packet) \notin DOMAIN device_states
    /\ device_states # <<>>
    /\ Len(csv_rows) = packet_count - 1

\* a DeviceState that is the earlier one carried on, not a fresh one
CarriedOn(old, new) ==
    /\ new.device_id = old.device_id
    /\ old.received_sequences \subseteq new.received_sequences
    /\ old.last_seq # None => new.last_seq # None
    /\ new.total_packets >= old.total_packets
    /\ new.duplicate_count >= old.duplicate_count
    /\ new.gap_count >= old.gap_count
    /\ new.bytes_received >= old.bytes_received
    /\ new.readings_received >= old.readings_received
    /\ new.last_processed_timestamp >= old.last_processed_timestamp
    /\ Len(new.reorder_heap) >= Len(old.reorder_heap) - 1

\* C8: the registry holds one DeviceState per device id; an entry appears exactly when
\* the first accepted packet of its device id arrives, and is never removed or
\* replaced by a fresh DeviceState afterwards.
C8_RegistryEntriesPersist ==
    /\ [](/\ Len(registry_order) = Cardinality(DOMAIN device_states)
          /\ {registry_order[i] : i \in 1..Len(registry_order)} = DOMAIN device_states
          /\ \A d \in DOMAIN device_states :
                /\ device_states[d].device_id = d
                /\ device_states[d] # DeviceState(d))
    /\ [][\A d \in DeviceIds :
            /\ d \in DOMAIN device_states
                  => /\ d \in DOMAIN device_states'
                     /\ CarriedOn(device_states[d], device_states'[d])
            /\ (d \notin DOMAIN device_states /\ d \in DOMAIN device_states')
                  <=> (/\ Received
                       /\ ~Rejected(packet')
                       /\ ClaimedDevice(packet') = d
                       /\ d \notin DOMAIN device_states)]_vars

\* two devices are registered and one of them has sent a second accepted packet
C8_Witness ==
    /\ Len(registry_order) = 2
    /\ \E d \in DOMAIN device_states :
          /\ packet_counts[d] >= 2
          /\ Cardinality(device_states[d].received_sequences) >= 2

(* ------------------------------------------------------------------ *)
(* SpecDevice: one DeviceState, its methods called in any order        *)
(* ------------------------------------------------------------------ *)
\* method calls made on the DeviceState under test
MaxCalls == 4

\* sequence numbers passed to the methods (u16: 0 and 65535 are its ends)
DeviceSeqs == {0, 1, 2, 65535}

DeviceTimestamps == {1000000, 1001000}

DeviceOnlyInit ==
    /\ ServerInit
    /\ reorder_enabled = TRUE
    /\ d_pc = "none"
    /\ DeviceInit
    /\ MetricsInit
    /\ CodecInit

DeviceFrame == UNCHANGED <<serverVars, metricsVars, codecVars>>

Called(op, seq, ret, updated) ==
    call' = [op |-> op, seq |-> seq, ret |-> ret, before |-> ds, updated |-> updated,
             n |-> call.n + 1]

DevCheckDuplicate ==
    /\ call.n < MaxCalls
    /\ \E seq \in DeviceSeqs :
          LET r == check_duplicate(ds, seq)
          IN  ds' = r.st /\ Called("check_duplicate", seq, r.ret, call.updated)
    /\ DeviceFrame

DevCheckGap ==
    /\ call.n < MaxCalls
    /\ \E seq \in DeviceSeqs :
          LET r == check_gap(ds, seq)
          IN  ds' = r.st /\ Called("check_gap", seq, r.ret, call.updated)
    /\ DeviceFrame

DevUpdateSequence ==
    /\ call.n < MaxCalls
    /\ \E seq \in DeviceSeqs :
          /\ ds' = update_sequence(ds, seq)
          /\ Called("update_sequence", seq, <<>>, call.updated \cup {seq})
    /\ DeviceFrame

DevAddPacket ==
    /\ call.n < MaxCalls
    /\ \E seq \in {1, 2}, t \in DeviceTimestamps :
          /\ ds' = add_packet(ds, seq, t, <<F_20_5>>, 16, call.n + 1)
          /\ Called("add_packet", seq, <<>>, call.updated)
    /\ DeviceFrame

DevGetNextOrdered ==
    /\ call.n < MaxCalls
    /\ LET r == get_next_ordered(ds)
       IN  ds' = r.st /\ Called("get_next_ordered", 0, r.ret, call.updated)
    /\ DeviceFrame

DeviceNext == DevCheckDuplicate \/ DevCheckGap \/ DevUpdateSequence \/ DevAddPacket
                \/ DevGetNextOrdered

SpecDevice == DeviceOnlyInit /\ [][DeviceNext]_vars

\* C4: check_duplicate(seq) returns true exactly for the seqs passed to
\* update_sequence before it, however often it is called; the seen set is exactly the
\* set of seqs update_sequence was given, so check_duplicate removes nothing from it.
C4_DuplicateDetection ==
    /\ ds.received_sequences = call.updated
    /\ call.op = "check_duplicate" =>
          /\ call.ret = (call.seq \in call.updated)
          /\ ds.received_sequences = call.before.received_sequences

\* a seq is reported a duplicate for at least the second time
C4_Witness ==
    /\ call.op = "check_duplicate"
    /\ call.ret = TRUE
    /\ ds.duplicate_count >= 2
    /\ call.before.duplicate_count >= 1
    /\ call.seq \in ds.received_sequences

\* C5: check_gap(seq) returns false exactly when last_seq is unset or
\* seq = last_seq + 1; it adds one to gap_count exactly when it returns true and
\* changes nothing else, last_seq included.
C5_GapDetection ==
    call.op = "check_gap" =>
        LET last == call.before.last_seq
        IN  /\ call.ret = ~(last = None \/ call.seq = last + 1)
            /\ ds = [call.before EXCEPT !.gap_count = @ + (IF call.ret THEN 1 ELSE 0)]
            /\ ds.last_seq = last

\* a seq below last_seq was reported as a gap
C5_Witness ==
    /\ call.op = "check_gap"
    /\ call.ret = TRUE
    /\ call.before.last_seq # None
    /\ call.seq < call.before.last_seq
    /\ ds.gap_count = call.before.gap_count + 1

(* ------------------------------------------------------------------ *)
(* SpecMetrics: MetricsCollector.  The sampler thread runs              *)
(* record_system_metrics under the lock, one statement per step; the    *)
(* main thread calls increment_packet_count (under the lock) and         *)
(* get_system_metrics (which takes no lock).                             *)
(* ------------------------------------------------------------------ *)
\* samples kept: the source keeps 1000 (server.py:173); the model runs the same
\* code with a small capacity
RingCapacity == 2

\* psutil's CPU and memory percentages (0 is also the fallback without psutil)
CpuSamples == {0, 90}
MemSamples == {0, 60}

\* if len(self.cpu_readings) > 1000
over_capacity(readings) == Len(readings) > RingCapacity

\* list.pop(0)
pop_first(readings) == Tail(readings)

RECURSIVE sum(_)
sum(readings) == IF readings = <<>> THEN 0 ELSE Head(readings) + sum(Tail(readings))

\* sorted(readings), by insertion
RECURSIVE insert_sorted(_, _)
insert_sorted(x, sorted_list) ==
    IF sorted_list = <<>> THEN <<x>>
    ELSE IF x <= Head(sorted_list) THEN <<x>> \o sorted_list
    ELSE <<Head(sorted_list)>> \o insert_sorted(x, Tail(sorted_list))

RECURSIVE sorted(_)
sorted(readings) ==
    IF readings = <<>> THEN <<>>
    ELSE insert_sorted(Head(readings), sorted(Tail(readings)))

\* the return value of get_system_metrics when no sample is recorded
no_samples_result == <<0, 0, 0, 0, 0, 0>>

\* lines 189-196 on the two copies; a quotient sum/len is kept as <<sum, len>>, and
\* the division by len(mem_readings) = 0 raises
system_metrics(cpu, mem) ==
    LET cpu_sorted == sorted(cpu)
        cpu_median == cpu_sorted[(Len(cpu_sorted) \div 2) + 1]
        cpu_p95 == cpu_sorted[((Len(cpu_sorted) * 95) \div 100) + 1]
    IN  IF mem = <<>> THEN <<"ZeroDivisionError">>
        ELSE <<<<sum(cpu), Len(cpu)>>, cpu_median, cpu_p95, <<sum(mem), Len(mem)>>>>

MetricsOnlyInit ==
    /\ ServerInit
    /\ reorder_enabled = TRUE
    /\ d_pc = "none"
    /\ DeviceInit
    /\ MetricsInit
    /\ CodecInit

MetricsFrame ==
    UNCHANGED <<device_states, registry_order, csv_rows, packet_count, packet,
                reorder_enabled, running, stop_event, drainVars, deviceVars, codecVars>>

\* monitor_system_metrics: while not metrics_stop.is_set()
SamplerWhile ==
    /\ s_pc = "while"
    /\ s_pc' = IF metrics_stop THEN "stopped" ELSE "acquire"
    /\ UNCHANGED <<cpu_readings, memory_readings, lock, metrics_stop, m_pc, g_cpu, g_mem,
                   g_result, packet_counts>>
    /\ MetricsFrame

\* with self.lock
SamplerAcquire ==
    /\ s_pc = "acquire"
    /\ lock = "free"
    /\ lock' = "sampler"
    /\ s_pc' = "append_cpu"
    /\ UNCHANGED <<cpu_readings, memory_readings, metrics_stop, m_pc, g_cpu, g_mem,
                   g_result, packet_counts>>
    /\ MetricsFrame

\* self.cpu_readings.append(...)
SamplerAppendCpu ==
    /\ s_pc = "append_cpu"
    /\ \E v \in CpuSamples : cpu_readings' = Append(cpu_readings, v)
    /\ s_pc' = "append_mem"
    /\ UNCHANGED <<memory_readings, lock, metrics_stop, m_pc, g_cpu, g_mem, g_result,
                   packet_counts>>
    /\ MetricsFrame

\* self.memory_readings.append(...)
SamplerAppendMem ==
    /\ s_pc = "append_mem"
    /\ \E v \in MemSamples : memory_readings' = Append(memory_readings, v)
    /\ s_pc' = "trim"
    /\ UNCHANGED <<cpu_readings, lock, metrics_stop, m_pc, g_cpu, g_mem, g_result,
                   packet_counts>>
    /\ MetricsFrame

\* if len(self.cpu_readings) > 1000: self.cpu_readings.pop(0)
SamplerTrim ==
    /\ s_pc = "trim"
    /\ IF over_capacity(cpu_readings)
       THEN cpu_readings' = pop_first(cpu_readings) /\ s_pc' = "pop_mem"
       ELSE UNCHANGED cpu_readings /\ s_pc' = "release"
    /\ UNCHANGED <<memory_readings, lock, metrics_stop, m_pc, g_cpu, g_mem, g_result,
                   packet_counts>>
    /\ MetricsFrame

\* self.memory_readings.pop(0)
SamplerPopMem ==
    /\ s_pc = "pop_mem"
    /\ memory_readings' = pop_first(memory_readings)
    /\ s_pc' = "release"
    /\ UNCHANGED <<cpu_readings, lock, metrics_stop, m_pc, g_cpu, g_mem, g_result,
                   packet_counts>>
    /\ MetricsFrame

\* the end of the with block, then time.sleep(0.5)
SamplerRelease ==
    /\ s_pc = "release"
    /\ lock' = "free"
    /\ s_pc' = "while"
    /\ UNCHANGED <<cpu_readings, memory_readings, metrics_stop, m_pc, g_cpu, g_mem,
                   g_result, packet_counts>>
    /\ MetricsFrame

\* increment_packet_count: with self.lock
MainIncrementAcquire ==
    /\ m_pc = "idle"
    /\ lock = "free"
    /\ 7 \in DOMAIN packet_counts => packet_counts[7] < MaxPackets
    /\ lock' = "main"
    /\ m_pc' = "increment"
    /\ UNCHANGED <<cpu_readings, memory_readings, s_pc, metrics_stop, g_cpu, g_mem,
                   g_result, packet_counts>>
    /\ MetricsFrame

\* self.packet_counts[device_id] += 1, and the lock is released
MainIncrement ==
    /\ m_pc = "increment"
    /\ packet_counts' = increment_packet_count(packet_counts, 7)
    /\ lock' = "free"
    /\ m_pc' = "idle"
    /\ UNCHANGED <<cpu_readings, memory_readings, s_pc, metrics_stop, g_cpu, g_mem,
                   g_result>>
    /\ MetricsFrame

\* get_system_metrics: if not self.cpu_readings: return 0, 0, 0, 0, 0, 0
GetTest ==
    /\ m_pc = "idle"
    /\ IF cpu_readings = <<>>
       THEN g_result' = no_samples_result /\ m_pc' = "return"
       ELSE UNCHANGED g_result /\ m_pc' = "copy_cpu"
    /\ UNCHANGED <<cpu_readings, memory_readings, lock, s_pc, metrics_stop, g_cpu, g_mem,
                   packet_counts>>
    /\ MetricsFrame

\* cpu_readings = self.cpu_readings.copy()
GetCopyCpu ==
    /\ m_pc = "copy_cpu"
    /\ g_cpu' = cpu_readings
    /\ m_pc' = "copy_mem"
    /\ UNCHANGED <<cpu_readings, memory_readings, lock, s_pc, metrics_stop, g_mem,
                   g_result, packet_counts>>
    /\ MetricsFrame

\* mem_readings = self.memory_readings.copy()
GetCopyMem ==
    /\ m_pc = "copy_mem"
    /\ g_mem' = memory_readings
    /\ m_pc' = "compute"
    /\ UNCHANGED <<cpu_readings, memory_readings, lock, s_pc, metrics_stop, g_cpu,
                   g_result, packet_counts>>
    /\ MetricsFrame

\* the averages, the median and the 95th percentile, returned; the copies are locals
\* and end with the call
GetCompute ==
    /\ m_pc = "compute"
    /\ g_result' = system_metrics(g_cpu, g_mem)
    /\ g_cpu' = <<>>
    /\ g_mem' = <<>>
    /\ m_pc' = "return"
    /\ UNCHANGED <<cpu_readings, memory_readings, lock, s_pc, metrics_stop, packet_counts>>
    /\ MetricsFrame

\* the caller takes the tuple returned (cpu_avg, cpu_med, cpu_p95, mem_avg = ...)
GetReturn ==
    /\ m_pc = "return"
    /\ g_result' = <<>>
    /\ m_pc' = "idle"
    /\ UNCHANGED <<cpu_readings, memory_readings, lock, s_pc, metrics_stop, g_cpu, g_mem,
                   packet_counts>>
    /\ MetricsFrame

\* metrics_stop.set()
MetricsStop ==
    /\ ~metrics_stop
    /\ metrics_stop' = TRUE
    /\ UNCHANGED <<cpu_readings, memory_readings, lock, s_pc, m_pc, g_cpu, g_mem,
                   g_result, packet_counts>>
    /\ MetricsFrame

MetricsNext ==
    \/ SamplerWhile \/ SamplerAcquire \/ SamplerAppendCpu \/ SamplerAppendMem
    \/ SamplerTrim \/ SamplerPopMem \/ SamplerRelease
    \/ MainIncrementAcquire \/ MainIncrement
    \/ GetTest \/ GetCopyCpu \/ GetCopyMem \/ GetCompute \/ GetReturn
    \/ MetricsStop

SpecMetrics == MetricsOnlyInit /\ [][MetricsNext]_vars

\* C9 as claimed: the CPU and memory buffers hold at most the capacity in every state
\* another actor can observe (whenever the sampler does not hold the lock, and in
\* every copy the summary reader takes without the lock), and a sample leaves a
\* buffer only from its front (the oldest first).
C9_RingNeverExceedsCapacity ==
    /\ [](/\ lock # "sampler" => /\ Len(cpu_readings) <= RingCapacity
                                  /\ Len(memory_readings) <= RingCapacity
          /\ Len(g_cpu) <= RingCapacity
          /\ Len(g_mem) <= RingCapacity)
    /\ [][/\ Len(cpu_readings') < Len(cpu_readings)
             => cpu_readings' = Tail(cpu_readings)
          /\ Len(memory_readings') < Len(memory_readings)
             => memory_readings' = Tail(memory_readings)]_vars

(* ------------------------------------------------------------------ *)
(* SpecCodec: build_data_packet on reading lists of every length up to  *)
(* a little over the cap                                                *)
(* ------------------------------------------------------------------ *)
\* the longest reading list given to build_data_packet
MaxCodecReadings == 50

\* a list of n readings; the offset k moves the place of the 3.14s
ReadingList(n, k) == [i \in 1..n |-> IF (i + k) % 3 = 0 THEN F_3_14 ELSE F_20_5]

\* reading lists holding a value that is not a 2-decimal value of binary32's range
OddReadingLists ==
    {<<F_0_005>>, <<F_20_5, F_0_005>>, <<F_1000000_01>>, <<F_3_14, F_1000000_01, F_20_5>>}

CodecInputs ==
    {ReadingList(n, k) : n \in 0..MaxCodecReadings, k \in 0..2} \cup OddReadingLists

CodecOnlyInit ==
    /\ ServerInit
    /\ reorder_enabled = TRUE
    /\ d_pc = "none"
    /\ DeviceInit
    /\ MetricsInit
    /\ codec_in \in CodecInputs
    /\ ts_packet = <<>>
    /\ CodecStart

\* packet = build_data_packet(device_id, seq_num, readings, timestamp)
Encode ==
    /\ codec_pc = "encode"
    /\ \E device_id \in {7, 513}, seq_num \in {1, 300}, timestamp \in {1000, 1700000000} :
          /\ codec_out' = build_data_packet(device_id, seq_num, codec_in, timestamp)
          /\ codec_args' = [device_id |-> device_id, seq_num |-> seq_num,
                            timestamp |-> timestamp]
    /\ codec_pc' = "decode"
    /\ UNCHANGED <<codec_in, codec_pkt, codec_parsed, ts_packet, ts_fed>>
    /\ UNCHANGED <<serverVars, deviceVars, metricsVars>>

\* what the network may hand the server for the packet p: p itself, p cut short at
\* any length, p followed by bytes nobody declared, p with its count byte changed
Deliveries(p) ==
    {SubSeq(p, 1, n) : n \in 0..Len(p)}
        \cup {p \o pack_f(F_20_5)}
        \cup (IF Len(p) > HEADER_SIZE
              THEN {[p EXCEPT ![HEADER_SIZE + 1] = c] :
                        c \in {0, p[HEADER_SIZE + 1] - 1, p[HEADER_SIZE + 1] + 1, 255}
                                \cap 0..255}
              ELSE {})

\* header = processor.parse_header(packet); readings = processor.parse_data_payload(packet)
Decode ==
    /\ codec_pc = "decode"
    /\ codec_out # ValueError
    /\ \E pkt \in Deliveries(codec_out) :
          /\ codec_pkt' = pkt
          /\ codec_parsed' = [header |-> parse_header(pkt),
                              readings |-> parse_data_payload(pkt)]
    /\ codec_pc' = "done"
    /\ UNCHANGED <<codec_in, codec_out, codec_args, ts_packet, ts_fed>>
    /\ UNCHANGED <<serverVars, deviceVars, metricsVars>>

CodecNext == Encode \/ Decode

SpecCodec == CodecOnlyInit /\ [][CodecNext]_vars

\* C10: build_data_packet encodes the first 47 readings of a longer list, in their
\* order, with count byte 47; for every length the batching bit of the flags byte is
\* set exactly when more than one reading is encoded.
C10_TruncatesToFirst47 ==
    codec_pc # "encode" =>
        LET n == Len(codec_in)
            m == IF n > 47 THEN 47 ELSE n
        IN  /\ Len(codec_out) = 12 + 4 * m
            /\ codec_out[12] = m
            /\ \A i \in 1..m :
                  SubSeq(codec_out, 12 + 4 * (i - 1) + 1, 12 + 4 * i)
                      = pack_f(codec_in[i])
            /\ (codec_out[11] % 2 = 1) <=> (m > 1)

\* a list of more than 47 readings was encoded, and its 48th reading differs from
\* its 47th
C10_Witness ==
    /\ Len(codec_in) > 47
    /\ codec_in[47] # codec_in[48]
    /\ codec_pc # "encode"
    /\ codec_out[12] = 47
    /\ codec_out[11] = 1

\* a reading that is a 2-decimal value binary32 keeps apart from its neighbours: the
\* double nearest a multiple of 0.01, of magnitude below 2^17 = 131072
TwoDecimal(r) == r[1] % 10 = 0 /\ r[2] \in {-1, 0, 1} /\ -131072000 < r[1] /\ r[1] < 131072000

\* the header fields build_data_packet encoded are the ones parse_header returns
HeaderRoundTrip ==
    /\ codec_parsed.header # ParsedNone
    /\ codec_parsed.header.version = VERSION
    /\ codec_parsed.header.msg_type = MSG_DATA
    /\ codec_parsed.header.dev_id = codec_args.device_id
    /\ codec_parsed.header.seq = codec_args.seq_num
    /\ codec_parsed.header.timestamp = codec_args.timestamp
    /\ codec_parsed.header.flags = (IF Len(codec_in) > 1 THEN FLAG_BATCHING ELSE 0)

\* C11 as claimed: for every list of at most MAX_READINGS_PER_PACKET readings,
\* decoding the packet built from it returns a list of the same length whose i-th
\* element is the i-th reading rounded to 2 decimal places, and parse_header returns
\* the device id, seq, timestamp and flags encoded.
C11_RoundTripEveryReading ==
    (codec_pc = "done" /\ codec_pkt = codec_out /\ Len(codec_in) <= MAX_READINGS_PER_PACKET)
        => /\ Len(codec_parsed.readings) = Len(codec_in)
           /\ \A i \in 1..Len(codec_in) : codec_parsed.readings[i] = round2(codec_in[i])
           /\ HeaderRoundTrip

\* C11 amended: for every list of at most MAX_READINGS_PER_PACKET readings that are
\* all 2-decimal values of magnitude below 131072 (what the sensors produce),
\* decoding the packet built from it returns the same readings in the same order
\* (each equal to itself rounded to 2 decimal places), and parse_header returns the
\* device id, seq, timestamp and flags encoded.
C11_RoundTripTwoDecimal ==
    (/\ codec_pc = "done"
     /\ codec_pkt = codec_out
     /\ Len(codec_in) <= MAX_READINGS_PER_PACKET
     /\ \A i \in 1..Len(codec_in) : TwoDecimal(codec_in[i]))
        => /\ codec_parsed.readings = codec_in
           /\ HeaderRoundTrip

\* a full packet of 47 readings, 3.14 among them, with a two-byte device id and seq,
\* was built and decoded
C11_Witness ==
    /\ codec_pc = "done"
    /\ codec_pkt = codec_out
    /\ Len(codec_in) = MAX_READINGS_PER_PACKET
    /\ \A i \in 1..Len(codec_in) : TwoDecimal(codec_in[i])
    /\ \E i \in 1..Len(codec_in) : codec_in[i] = F_3_14
    /\ codec_parsed.readings = codec_in
    /\ codec_args = [device_id |-> 513, seq_num |-> 300, timestamp |-> 1700000000]

\* the smaller of two numbers
Min(a, b) == IF a < b THEN a ELSE b

\* C12: on a packet whose declared count exceeds the floats that fit in the remaining
\* bytes parse_data_payload returns, without raising, exactly
\* min(count, floor((len(packet) - 12) / 4)) readings taken from the front of the
\* payload; it returns the empty list when the packet has no count byte; bytes beyond
\* the declared count are ignored.
C12_PartialPayload ==
    codec_pc = "done" =>
        IF Len(codec_pkt) < 12
        THEN codec_parsed.readings = <<>>
        ELSE LET n == Min(codec_pkt[12], (Len(codec_pkt) - 12) \div 4)
             IN  /\ Len(codec_parsed.readings) = n
                 /\ \A i \in 1..n :
                       /\ codec_parsed.readings[i]
                             = round2(unpack_f(SubSeq(codec_pkt, 12 + 4 * (i - 1) + 1,
                                                      12 + 4 * i)))
                       /\ i <= Len(codec_in)
                       /\ TwoDecimal(codec_in[i]) => codec_parsed.readings[i] = codec_in[i]

\* a packet declaring more readings than its bytes hold, cut inside a float, was
\* decoded to the readings that are whole
C12_Witness ==
    /\ codec_pc = "done"
    /\ Len(codec_pkt) > 12
    /\ (Len(codec_pkt) - 12) % 4 # 0
    /\ codec_pkt[12] > (Len(codec_pkt) - 12) \div 4
    /\ Len(codec_parsed.readings) = (Len(codec_pkt) - 12) \div 4
    /\ Len(codec_parsed.readings) >= 2

(* ------------------------------------------------------------------ *)
(* Further properties of the server                                    *)
(* ------------------------------------------------------------------ *)
\* C13: the records the ReorderDrainer emits for one device never include two records
\* with the same seq, even when the device's packets arrive more than once.
C13_EmittedDeduplicated ==
    \A d \in DeviceIds :
        \A i, j \in 1..Len(emitted[d]) :
            emitted[d][i].seq = emitted[d][j].seq => i = j

\* the timestamp an accepted packet carries (bytes 6 to 9, big-endian), as sent
ClaimedTimestamp(p) == ((p[7] * 256 + p[8]) * 256 + p[9]) * 256 + p[10]

\* C14: every packet that passes header decoding and version validation hands exactly
\* one row to the persistence sink, within its own pass of the receive loop, carrying
\* the header timestamp as sent (not normalised) and the duplicate and gap flags of
\* that same packet; a malformed or wrong-version packet adds no row, and nothing
\* else writes rows.
C14_OneRowPerAcceptedPacket ==
    [][/\ (Received /\ ~Rejected(packet')) =>
            LET d == ClaimedDevice(packet')
                seq == ClaimedSeq(packet')
                known == d \in DOMAIN device_states
                row == csv_rows'[Len(csv_rows')]
            IN  /\ Len(csv_rows') = Len(csv_rows) + 1
                /\ SubSeq(csv_rows', 1, Len(csv_rows)) = csv_rows
                /\ row.device_id = d
                /\ row.seq = seq
                /\ row.timestamp = ClaimedTimestamp(packet')
                /\ row.duplicate_flag
                      = (known /\ seq \in device_states[d].received_sequences)
                /\ row.gap_flag
                      = (/\ known
                         /\ device_states[d].last_seq # None
                         /\ seq # device_states[d].last_seq + 1)
                /\ row.packet_size = Len(packet')
       /\ (Received /\ Rejected(packet')) => csv_rows' = csv_rows
       /\ ~Received => csv_rows' = csv_rows]_vars

\* after a rejected packet, a DATA packet repeating the latest seq was accepted with
\* reordering on: its row carries both flags and the timestamp in seconds as sent,
\* while the record pushed on the heap carries milliseconds
C14_Witness ==
    /\ reorder_enabled
    /\ Len(csv_rows) = 2
    /\ packet_count = 3
    /\ ~Rejected(packet)
    /\ csv_rows[2].duplicate_flag
    /\ csv_rows[2].gap_flag
    /\ csv_rows[2].timestamp = 1000
    /\ csv_rows[2].timestamp = ClaimedTimestamp(packet)
    /\ \E i \in 1..Len(device_states[7].reorder_heap) :
          /\ device_states[7].reorder_heap[i].arrival_time = 3
          /\ device_states[7].reorder_heap[i].timestamp = 1000000

(* ------------------------------------------------------------------ *)
(* SpecFair: the three actors together.  The main thread receives the   *)
(* scenario's packets, the ReorderProcessor drains, the sampler thread  *)
(* records; the two threads are scheduled fairly (each is a running     *)
(* thread of the interpreter, and never waits for longer than a sleep   *)
(* or a lock held for a few statements).                                *)
(* ------------------------------------------------------------------ *)
\* monitor_system_metrics: the sampler thread's steps
Sampler ==
    \/ SamplerWhile \/ SamplerAcquire \/ SamplerAppendCpu \/ SamplerAppendMem
    \/ SamplerTrim \/ SamplerPopMem \/ SamplerRelease

FairNext == ScenarioReceive \/ Shutdown \/ Drain \/ Sampler

SpecFair == Init /\ [][FairNext]_vars /\ WF_vars(Drain) /\ WF_vars(Sampler)

\* C15: once the shutdown signal is raised the receive loop is left, and the
\* ReorderProcessor (when there is one) and the sampler thread each come to their
\* end, whatever the reorder heaps hold.
C15_ShutdownTerminates ==
    stop_event ~> (/\ ~running
                   /\ d_pc \in {"stopped", "none"}
                   /\ s_pc = "stopped")

\* everything has stopped while a heap still holds a record
C15_Witness ==
    /\ ~running
    /\ stop_event
    /\ d_pc = "stopped"
    /\ s_pc = "stopped"
    /\ 7 \in DOMAIN device_states
    /\ device_states[7].reorder_heap # <<>>
    /\ Len(cpu_readings) = RingCapacity

\* the records get_next_ordered has taken off device d's heap for its caller: those
\* returned, and the one a call in progress has popped and is about to return
Returned(d) ==
    emitted[d] \o (IF d_pc = "store" /\ d_dev = d THEN <<d_local>> ELSE <<>>)

\* the arrival times (one per packet) of the records in a sequence
ArrivalTimes(records) == {records[i].arrival_time : i \in 1..Len(records)}

\* C16: no record is lost or emitted twice by the reorder path: for each device the
\* records add_packet pushed are exactly the records get_next_ordered returned so far
\* together with the records in the heap, each once, for every interleaving of the
\* push with the drainer's peek, guard test and pop.
C16_NoRecordLostOrRepeated ==
    \A d \in DOMAIN device_states :
        LET heap == device_states[d].reorder_heap
            out == Returned(d)
        IN  /\ Len(heap) + Len(out) = device_states[d].total_packets
            /\ Cardinality(ArrivalTimes(heap) \cup ArrivalTimes(out))
                  = device_states[d].total_packets

\* the record of the packet that arrived a-th is in device d's heap, it is the one
\* add_packet pushed last, and its timestamp is not below last_processed_timestamp
PushedEligible(d, a) ==
    /\ reorder_enabled
    /\ d \in DOMAIN device_states
    /\ a = packet_count
    /\ \E i \in 1..Len(device_states[d].reorder_heap) :
          /\ device_states[d].reorder_heap[i].arrival_time = a
          /\ device_states[d].reorder_heap[i].timestamp
                >= device_states[d].last_processed_timestamp

\* C17: with reordering enabled and the drainer scheduled fairly, every record pushed
\* with a timestamp not below the device's last_processed_timestamp at the time of
\* the push is eventually returned by get_next_ordered, unless shutdown is signalled.
C17_EligibleRecordReturned ==
    \A a \in 1..MaxPackets :
        PushedEligible(7, a)
            ~> (stop_event \/ \E j \in 1..Len(emitted[7]) : emitted[7][j].arrival_time = a)

\* the minimum of device d's heap is older than the device's last_processed_timestamp
Blocked(d) ==
    /\ d \in DOMAIN device_states
    /\ device_states[d].reorder_heap # <<>>
    /\ device_states[d].reorder_heap[1].timestamp
          < device_states[d].last_processed_timestamp

\* C18: once the minimum of a device's heap is older than last_processed_timestamp
\* the device's drain is blocked for good: the minimum stays older, get_next_ordered
\* returns nothing any more and no record of the device is emitted again, whatever
\* arrives afterwards.
C18_BlockedForGood ==
    [][\A d \in DeviceIds :
          Blocked(d) => /\ Blocked(d)'
                        /\ emitted'[d] = emitted[d]
                        /\ device_states'[d].last_processed_timestamp
                              = device_states[d].last_processed_timestamp]_vars

\* the records of a heap, as a bag keyed by arrival time (one arrival per record)
HeapRecords(heap) == {heap[i] : i \in 1..Len(heap)}

\* r is a minimum of the heap by (timestamp, seq)
IsMinimum(r, heap) ==
    /\ r \in HeapRecords(heap)
    /\ \A x \in HeapRecords(heap) :
          \/ r.timestamp < x.timestamp
          \/ r.timestamp = x.timestamp /\ r.seq <= x.seq

C19_WitnessStale ==
    /\ call.op = "get_next_ordered"
    /\ call.ret = <<>>
    /\ call.before.reorder_heap # <<>>
    /\ ds = call.before

\* C20: for every accepted packet both check_duplicate and check_gap are evaluated
\* (a duplicate is still checked for a gap), the gap check uses last_seq as it was
\* before this packet's update_sequence, and update_sequence is called exactly when
\* the packet is not a duplicate; so a repeat of the latest seq is recorded with
\* duplicate and gap both true.
C20_BothChecksEvaluated ==
    [][(Received /\ ~Rejected(packet')) =>
          LET d == ClaimedDevice(packet')
              seq == ClaimedSeq(packet')
              old == IF d \in DOMAIN device_states THEN device_states[d]
                     ELSE DeviceState(d)
              new == device_states'[d]
              row == csv_rows'[Len(csv_rows')]
              duplicate == seq \in old.received_sequences
              gap == old.last_seq # None /\ seq # old.last_seq + 1
          IN  /\ row.duplicate_flag = duplicate
              /\ row.gap_flag = gap
              /\ new.duplicate_count = old.duplicate_count + (IF duplicate THEN 1 ELSE 0)
              /\ new.gap_count = old.gap_count + (IF gap THEN 1 ELSE 0)
              /\ new.last_seq = (IF duplicate THEN old.last_seq ELSE seq)
              /\ new.received_sequences = old.received_sequences \cup {seq}
              /\ (duplicate /\ seq = old.last_seq) => (row.duplicate_flag /\ row.gap_flag)]_vars

\* the latest seq of a device was received again: its row carries both flags, and
\* both counters of the device have counted it
C20_Witness ==
    /\ ~Rejected(packet)
    /\ Len(csv_rows) >= 2
    /\ LET d == ClaimedDevice(packet)
           row == csv_rows[Len(csv_rows)]
       IN  /\ d \in DOMAIN device_states
           /\ row.device_id = d
           /\ row.seq = ClaimedSeq(packet)
           /\ row.seq = device_states[d].last_seq
           /\ row.duplicate_flag
           /\ row.gap_flag
           /\ device_states[d].duplicate_count = 1
           /\ device_states[d].gap_count = 1

\* the elements of a sequence
Range(s) == {s[i] : i \in 1..Len(s)}

\* the arrival time of the packet that created device d's registry entry
FirstArrival(d) ==
    LET i == CHOOSE k \in 1..Len(csv_rows) :
                 /\ csv_rows[k].device_id = d
                 /\ \A j \in 1..(k - 1) : csv_rows[j].device_id # d
    IN  csv_rows[i].arrival_time

\* the step that ends a sweep: the for loop is through its snapshot
SweepEnds == d_pc = "for" /\ d_items = <<>> /\ d_pc' = "while"

\* the step that begins a sweep: the snapshot is taken
SweepBegins == d_pc = "while" /\ d_pc' = "for"

\* the registry is written only by the IngestionLoop, the drainer iterates a snapshot
\* that arrivals do not touch, and every sweep's snapshot is the whole registry
SnapshotThenIterate ==
    /\ [][/\ d_pc' # d_pc => /\ DOMAIN device_states' = DOMAIN device_states
                              /\ registry_order' = registry_order
          /\ DOMAIN device_states \subseteq DOMAIN device_states'
          /\ Received => d_sweep' = d_sweep /\ d_items' = d_items /\ d_dev' = d_dev
          /\ SweepBegins => /\ d_sweep' = registry_order
                            /\ Range(d_sweep') = DOMAIN device_states
          /\ ~SweepBegins => d_sweep' = d_sweep]_vars
    /\ [](/\ Len(d_items) <= Len(d_sweep)
          /\ d_items = SubSeq(d_sweep, Len(d_sweep) - Len(d_items) + 1, Len(d_sweep))
          /\ Range(d_sweep) \subseteq DOMAIN device_states
          /\ d_pc \in {"test", "peek", "guard", "pop", "store"}
                => d_dev = d_sweep[Len(d_sweep) - Len(d_items)])

\* C21 as claimed: only the IngestionLoop inserts registry keys, the drainer iterates
\* a snapshot that a concurrent insertion does not invalidate, and at the end of a
\* sweep whose snapshot holds a device, the record buffered when the device was
\* created has been drained from its heap.
C21_DrainedByNextSweep ==
    /\ SnapshotThenIterate
    /\ [][SweepEnds =>
             \A d \in Range(d_sweep) :
                 \A i \in 1..Len(device_states[d].reorder_heap) :
                     device_states[d].reorder_heap[i].arrival_time # FirstArrival(d)]_vars

\* C21 amended: only the IngestionLoop inserts registry keys and nothing removes
\* them; the drainer iterates a snapshot taken at the start of each sweep, which a
\* concurrent insertion does not change; the snapshot is the whole registry, so a
\* device created during sweep k is in the snapshot of sweep k+1, and each sweep calls
\* get_next_ordered on every device of its snapshot, in order, until it returns none.
C21_VisitedByNextSweep ==
    /\ SnapshotThenIterate
    /\ [][SweepEnds => d_items = <<>> /\ Range(d_sweep) \subseteq DOMAIN device_states]_vars
    /\ [][(d_pc \in {"test", "guard"} /\ d_pc' = "for") => d_items' = d_items]_vars

\* a device was registered while a sweep was under way, is missing from that sweep's
\* snapshot, and the for loop is at work on another device
C21_WitnessLag ==
    /\ d_pc \in {"peek", "guard", "pop", "store"}
    /\ Len(registry_order) = 2
    /\ Len(d_sweep) = 1
    /\ d_dev = d_sweep[1]

\* the next sweep has the device created during the sweep before in its snapshot, and
\* is draining it
C21_Witness ==
    /\ d_pc = "store"
    /\ Len(d_sweep) = 2
    /\ d_dev = d_sweep[2]
    /\ d_dev = 8
    /\ processed_count >= 1
    /\ emitted[7] # <<>>

\* C22: a record is pushed onto the device's reorder heap, and total_packets,
\* bytes_received and readings_received are incremented, exactly when the packet is
\* accepted, its message type is DATA and reordering is enabled; heartbeats, unknown
\* message types and every packet of a run without reordering leave the heaps and
\* these counters as they were (empty and zero without reordering), while the
\* sequence tracking is still updated.
C22_PushedIffDataAndReorder ==
    /\ [](~reorder_enabled =>
             \A d \in DOMAIN device_states :
                 /\ device_states[d].reorder_heap = <<>>
                 /\ device_states[d].total_packets = 0
                 /\ device_states[d].bytes_received = 0
                 /\ device_states[d].readings_received = 0)
    /\ [][(Received /\ ~Rejected(packet')) =>
             LET d == ClaimedDevice(packet')
                 old == IF d \in DOMAIN device_states THEN device_states[d]
                        ELSE DeviceState(d)
                 new == device_states'[d]
                 row == csv_rows'[Len(csv_rows')]
             IN  /\ ClaimedSeq(packet') \in new.received_sequences
                 /\ IF packet'[2] = MSG_DATA /\ reorder_enabled
                    THEN /\ Len(new.reorder_heap) = Len(old.reorder_heap) + 1
                         /\ \E i \in 1..Len(new.reorder_heap) :
                               /\ new.reorder_heap[i].arrival_time = packet_count'
                               /\ new.reorder_heap[i].seq = ClaimedSeq(packet')
                               /\ Len(new.reorder_heap[i].readings) = row.num_readings
                               /\ HeapRecords(new.reorder_heap)
                                     = HeapRecords(old.reorder_heap)
                                          \cup {new.reorder_heap[i]}
                         /\ new.total_packets = old.total_packets + 1
                         /\ new.bytes_received = old.bytes_received + Len(packet')
                         /\ new.readings_received
                               = old.readings_received + row.num_readings
                    ELSE /\ new.reorder_heap = old.reorder_heap
                         /\ new.total_packets = old.total_packets
                         /\ new.bytes_received = old.bytes_received
                         /\ new.readings_received = old.readings_received]_vars

\* with reordering on, a heartbeat was accepted after a batched DATA packet of its
\* device: it is tracked and counted by the collector, and the heap and the three
\* counters are those the DATA packet left
C22_Witness ==
    /\ reorder_enabled
    /\ packet_count = 2
    /\ ~Rejected(packet)
    /\ packet[2] = MSG_HEARTBEAT
    /\ ClaimedDevice(packet) = 7
    /\ packet_counts[7] = 2
    /\ device_states[7].last_seq = ClaimedSeq(packet)
    /\ device_states[7].total_packets = 1
    /\ device_states[7].readings_received = 2
    /\ device_states[7].bytes_received = 20
    /\ Len(device_states[7].reorder_heap) = 1

(* ------------------------------------------------------------------ *)
(* SpecTimestamp: the timestamp of an accepted DATA packet, from the    *)
(* header to the persisted row and to add_packet, for header values of  *)
(* the whole u32 range.  Python's integers are unbounded; a value is    *)
(* kept here as <<hi, lo>>, standing for hi * 1000000 + lo with         *)
(* 0 <= lo < 1000000.                                                   *)
(* ------------------------------------------------------------------ *)
WideNorm(hi, lo) == <<hi + (lo \div 1000000), lo % 1000000>>

WideLess(a, b) == a[1] < b[1] \/ (a[1] = b[1] /\ a[2] < b[2])

\* the I field of struct.unpack(HEADER_FORMAT, ...): four bytes, big-endian;
\* top * 65536 + bot with 65536 = 65 * 1000 + 536
unpack_I(b) ==
    LET top == b[1] * 256 + b[2]
        bot == b[3] * 256 + b[4]
        thousands == top * 65
    IN  WideNorm(thousands \div 1000, ((thousands % 1000) * 1000) + (top * 536) + bot)

\* the threshold of the conversion, 1000000000
SecondsThreshold == <<1000, 0>>

\* mutant of timestamp_ms_u32: the threshold itself is taken for seconds
timestamp_ms_u32_inclusive(timestamp) ==
    IF ~WideLess(SecondsThreshold, timestamp)
    THEN <<(timestamp[1] * 1000) + (timestamp[2] \div 1000), (timestamp[2] % 1000) * 1000>>
    ELSE timestamp

\* timestamp_ms = timestamp * 1000 if timestamp < 1000000000 else timestamp
timestamp_ms_u32(timestamp) ==
    IF WideLess(timestamp, SecondsThreshold)
    THEN <<(timestamp[1] * 1000) + (timestamp[2] \div 1000), (timestamp[2] % 1000) * 1000>>
    ELSE timestamp

\* DATA packets of device 7 whose header timestamp takes values over the u32 range:
\* 0, 1000, 999999999, 1000000000, 2147483648 and 4294967295 among them
TimestampPackets ==
    {[i \in 1..16 |-> CASE i = 7 -> b1 [] i = 8 -> b2 [] i = 9 -> b3 [] i = 10 -> b4
                        [] OTHER -> build_data_packet(7, 1, <<F_20_5>>, 0)[i]] :
        b1 \in {0, 59, 128, 255}, b2 \in {0, 154, 255}, b3 \in {0, 3, 201, 202, 255},
        b4 \in {0, 232, 255}}

TimestampInit ==
    /\ ServerInit
    /\ reorder_enabled = TRUE
    /\ d_pc = "none"
    /\ DeviceInit
    /\ MetricsInit
    /\ codec_in = <<>>
    /\ CodecStart
    /\ ts_packet \in TimestampPackets

\* the timestamp's way through one pass of the receive loop: unpacked from the
\* header, written to the row as it is, converted for add_packet
FeedTimestamp ==
    /\ ts_fed = <<>>
    /\ LET timestamp == unpack_I(SubSeq(ts_packet, 7, 10))
       IN  ts_fed' = [row |-> timestamp, heap |-> timestamp_ms_u32(timestamp)]
    /\ UNCHANGED <<codec_in, codec_out, codec_args, codec_pc, codec_pkt, codec_parsed,
                   ts_packet>>
    /\ UNCHANGED <<serverVars, deviceVars, metricsVars>>

TimestampNext == FeedTimestamp

SpecTimestamp == TimestampInit /\ [][TimestampNext]_vars

\* the header timestamp of ts_packet without its top bit, which fits a machine
\* integer, and the value of the top bit, 2147483648
LowBits == parse_header([ts_packet EXCEPT ![7] = @ % 128]).timestamp
TopBit == IF ts_packet[7] >= 128 THEN <<2147, 483648>> ELSE <<0, 0>>

\* C23: for every u32 header timestamp the timestamp fed to the reorder heap is the
\* header value times 1000 when the header value is below 1000000000 and the header
\* value itself otherwise; the row handed to persistence keeps the header value.
C23_TimestampNormalised ==
    ts_fed # <<>> =>
        LET raw == ts_fed.row
            fed == ts_fed.heap
        IN  /\ raw = WideNorm(TopBit[1] + (LowBits \div 1000000),
                              TopBit[2] + (LowBits % 1000000))
            /\ IF raw[1] < 1000
               THEN /\ fed[2] % 1000 = 0
                    /\ (fed[1] * 1000) + (fed[2] \div 1000) = (raw[1] * 1000000) + raw[2]
               ELSE fed = raw
            /\ (raw[1] = 0 /\ raw[2] < 2000)
                  => (fed[1] * 1000000) + fed[2] = timestamp_ms(raw[2])

\* the largest header value taken for seconds, 999999999, was fed to the heap as
\* 999999999000 and written to the row as it is
C23_Witness ==
    /\ ts_fed # <<>>
    /\ SubSeq(ts_packet, 7, 10) = <<59, 154, 201, 255>>
    /\ ts_fed.row = <<999, 999999>>
    /\ ts_fed.heap = <<999999, 999000>>

\* the largest u32 is taken for milliseconds and fed unchanged
C23_WitnessMax ==
    /\ ts_fed # <<>>
    /\ ts_fed.row = <<4294, 967295>>
    /\ ts_fed.heap = ts_fed.row

\* C24: for a list of readings of any length build_data_packet produces a packet of
\* 11 + 1 + 4 * min(len(readings), 47) bytes, which is within the maximum packet
\* size, so validate_packet_size never raises.
C24_SizeCheckNeverFails ==
    codec_pc # "encode" =>
        /\ codec_out # ValueError
        /\ Len(codec_out) = 11 + 1 + 4 * Min(Len(codec_in), 47)
        /\ Len(codec_out) - HEADER_SIZE <= MAX_PAYLOAD_BYTES
        /\ Len(codec_out) <= HEADER_SIZE + MAX_PAYLOAD_BYTES
        /\ validate_packet_size(codec_out)

\* a list too long for the size check, had it been encoded whole, was built into a
\* packet of the largest size, 200 bytes
C24_Witness ==
    /\ codec_pc # "encode"
    /\ 1 + 4 * Len(codec_in) > MAX_PAYLOAD_BYTES
    /\ Len(codec_out) = 200
    /\ codec_out[12] = MAX_READINGS_PER_PACKET

\* C25: get_system_metrics returns exactly four values (CPU average, CPU median, CPU
\* p95, memory average) in every state of the sample buffers, the state before the
\* first sample included, so that the callers unpacking four values never fail; the
\* median and p95 indices are within the sorted snapshot.
C25_SummaryHasFourValues ==
    /\ m_pc = "return" => Len(g_result) = 4
    /\ m_pc = "compute" =>
          /\ g_cpu # <<>>
          /\ Len(g_cpu) \div 2 < Len(g_cpu)
          /\ (Len(g_cpu) * 95) \div 100 < Len(g_cpu)

\* the rows of device d's packets that were not duplicates, in arrival order
FreshRows(d) ==
    SelectSeq(csv_rows, LAMBDA row : row.device_id = d /\ ~row.duplicate_flag)

\* C26: in every reachable state of every DeviceState last_seq is unset with an empty
\* seen set, or is a member of the seen set; the seen set only grows; last_seq is the
\* seq of the most recent accepted packet that was not a duplicate, so it goes down
\* when a lower seq not seen before arrives late.
C26_LastSeqTracksLatestFresh ==
    /\ [](\A d \in DOMAIN device_states :
             LET st == device_states[d]
             IN  /\ \/ st.last_seq = None /\ st.received_sequences = {}
                    \/ st.last_seq \in st.received_sequences
                 /\ FreshRows(d) # <<>>
                 /\ st.last_seq = FreshRows(d)[Len(FreshRows(d))].seq
                 /\ st.received_sequences
                       = {FreshRows(d)[i].seq : i \in 1..Len(FreshRows(d))})
    /\ [][\A d \in DOMAIN device_states :
             device_states[d].received_sequences
                \subseteq device_states'[d].received_sequences]_vars

\* a lower seq arrived late and took last_seq down, and a duplicate after it left
\* last_seq there
C26_Witness ==
    /\ Len(csv_rows) = 3
    /\ 7 \in DOMAIN device_states
    /\ device_states[7].received_sequences = {1, 3}
    /\ device_states[7].last_seq = 1
    /\ Len(FreshRows(7)) = 2
    /\ csv_rows[3].device_id = 7
    /\ csv_rows[3].duplicate_flag
    /\ csv_rows[3].seq = 3

====
